---- MODULE Spec2Model ----
(***************************************************************************)
(* Model of the Conversation-Analyst transcript pipeline.                  *)
(*                                                                         *)
(* Text is modelled character by character: a Python str is a sequence of  *)
(* one-character strings, so that strip(), lower() and the regular         *)
(* expressions of utils/doc_parser.py are computed rather than assumed.    *)
(***************************************************************************)
EXTENDS Integers, Sequences, FiniteSets, TLC

VARIABLES
    \* split_docs_into_sections (utils/doc_parser.py)
    sp_pc, sp_arg, extract_docs, sp_i, section, remarks, action_qa,
    \* group_by_pattern (utils/doc_parser.py)
    gb_pc, qa_docs, gb_i, batches, current_qs, current_as,
    \* Pattern_extract (utils/doc_parser.py)
    ex_pc, ex_docs, ex_management, ex_out,
    \* meta_data (utils/metadata.py)
    md_pc, md_docs, md_reply, md_llm_ok, md_today, md_out,
    \* extract_topics (utils/create_topics.py)
    tp_pc, tp_docs, tp_reply, tp_llm_ok, tp_out,
    \* one session's runs of Pattern_extract, split_docs_into_sections and
    \* group_by_pattern (app.py)
    pl_pc, pl_docs, pl_management, pl_run, pl_pattern, pl_remarks, pl_QA, pl_qa_batches, pl_first,
    \* file_load (utils/doc_parser.py) and the two load branches of the
    \* "Load Data" page (app.py)
    fl_files, fl_cache, fl_session, fl_last,
    \* rag_pipeline (utils/rag.py)
    rg_pc, rg_index, rg_query, rg_lib_order, rg_services_ok, rg_out,
    \* app.py and the worker threads running create_store (api/embedding.py)
    session_state, option, faiss_index, tasks, last_run

splitVars == <<sp_pc, sp_arg, extract_docs, sp_i, section, remarks, action_qa>>
groupVars == <<gb_pc, qa_docs, gb_i, batches, current_qs, current_as>>
extractVars == <<ex_pc, ex_docs, ex_management, ex_out>>
metaVars == <<md_pc, md_docs, md_reply, md_llm_ok, md_today, md_out>>
topicVars == <<tp_pc, tp_docs, tp_reply, tp_llm_ok, tp_out>>
pipelineVars == <<pl_pc, pl_docs, pl_management, pl_run, pl_pattern, pl_remarks, pl_QA, pl_qa_batches, pl_first>>
loadVars == <<fl_files, fl_cache, fl_session, fl_last>>
ragVars == <<rg_pc, rg_index, rg_query, rg_lib_order, rg_services_ok, rg_out>>
appVars == <<session_state, option, faiss_index, tasks, last_run>>
vars == <<splitVars, groupVars, extractVars, metaVars, topicVars, pipelineVars, loadVars, ragVars, appVars>>

\* What each function's steps leave alone.
notSplit == <<groupVars, extractVars, metaVars, topicVars, pipelineVars, loadVars, ragVars, appVars>>
notGroup == <<splitVars, extractVars, metaVars, topicVars, pipelineVars, loadVars, ragVars, appVars>>
notExtract == <<splitVars, groupVars, metaVars, topicVars, pipelineVars, loadVars, ragVars, appVars>>
notMeta == <<splitVars, groupVars, extractVars, topicVars, pipelineVars, loadVars, ragVars, appVars>>
notRag == <<splitVars, groupVars, extractVars, metaVars, topicVars, pipelineVars, loadVars, appVars>>
notApp == <<splitVars, groupVars, extractVars, metaVars, topicVars, pipelineVars, loadVars, ragVars>>
notTopics == <<splitVars, groupVars, extractVars, metaVars, pipelineVars, loadVars, ragVars, appVars>>
notPipeline == <<splitVars, groupVars, extractVars, metaVars, topicVars, loadVars, ragVars, appVars>>
notLoad == <<splitVars, groupVars, extractVars, metaVars, topicVars, pipelineVars, ragVars, appVars>>

(***************************************************************************)
(* Python str primitives.                                                  *)
(***************************************************************************)
ascii_uppercase == <<"A","B","C","D","E","F","G","H","I","J","K","L","M","N","O","P","Q","R","S","T","U","V","W","X","Y","Z">>
ascii_lowercase == <<"a","b","c","d","e","f","g","h","i","j","k","l","m","n","o","p","q","r","s","t","u","v","w","x","y","z">>

IsUpper(c) == \E k \in 1..26 : ascii_uppercase[k] = c
IsLowerCase(c) == \E k \in 1..26 : ascii_lowercase[k] = c

\* str.lower() on one character.
LowerChar(c) ==
    IF IsUpper(c) THEN ascii_lowercase[CHOOSE k \in 1..26 : ascii_uppercase[k] = c]
    ELSE c

\* str.lower()
str_lower(s) == [k \in 1..Len(s) |-> LowerChar(s[k])]

\* The characters str.strip() removes and the regex class \s matches.
IsSpace(c) == c \in {" ", "\n", "\t", "\r"}

SetMin(S) == CHOOSE x \in S : \A y \in S : x <= y
SetMax(S) == CHOOSE x \in S : \A y \in S : x >= y

\* str.strip()
str_strip(s) ==
    LET keep == {k \in 1..Len(s) : ~IsSpace(s[k])}
    IN  IF keep = {} THEN <<>> ELSE SubSeq(s, SetMin(keep), SetMax(keep))

\* re.compile(<literal>, re.I).search(s): a literal pattern matches at p when
\* the characters agree up to letter case.
LiteralAtI(pat, s, p) ==
    /\ p + Len(pat) - 1 <= Len(s)
    /\ \A k \in 1..Len(pat) : LowerChar(s[p + k - 1]) = LowerChar(pat[k])

re_search_literal_I(pat, s) == \E p \in 1..Len(s) : LiteralAtI(pat, s, p)

(***************************************************************************)
(* Literals of utils/doc_parser.py.                                        *)
(***************************************************************************)
qa_start_pattern == <<"T","h","e"," ","f","i","r","s","t"," ","q","u","e","s","t","i","o","n">>
moderator == <<"m","o","d","e","r","a","t","o","r">>

\* Sample speakers and contents the inputs are drawn from.
spk_Moderator == <<"M","o","d","e","r","a","t","o","r">>
spk_MODERATOR_padded == <<" ","M","O","D","E","R","A","T","O","R"," ">>
spk_Al == <<"A","l">>
spk_Bo == <<"B","o">>
txt_hi == <<"h","i">>
txt_first_question == <<"T","h","e"," ","f","i","r","s","t"," ","q","u","e","s","t","i","o","n"," ","i","s"," ","f","r","o","m"," ","B","o">>
txt_first_question_lc == <<"n","o","w"," ","t","h","e"," ","F","I","R","S","T"," ","q","u","e","s","t","i","o","n"," ">>
txt_first_only == <<"f","i","r","s","t"," ","q","u","e","s","t","i","o","n">>

(***************************************************************************)
(* A langchain Document: page_content plus the metadata keys the pipeline  *)
(* writes.  A metadata key that is not set is modelled by the value        *)
(* NoSection.                                                              *)
(***************************************************************************)
NoSection == "<unset>"

Document(content, speaker, order, type, role) ==
    [page_content |-> content, speaker |-> speaker, order |-> order,
     type |-> type, role |-> role, Section |-> NoSection]

\* Bounds of the inputs.
MaxSplitDocs == 3
MaxQaDocs == 7

(***************************************************************************)
(* split_docs_into_sections                                                *)
(***************************************************************************)

\* The loop body with the destination decided before the flag is flipped.
SplitIter_FlipAfter(st, k) ==
    LET doc == st.docs[k]
        speaker == str_strip(doc.speaker)
        content == str_strip(doc.page_content)
        flipped == IF st.section = "Remarks" /\ re_search_literal_I(qa_start_pattern, content)
                   THEN "Action Q&A" ELSE st.section
    IN  IF str_lower(speaker) # moderator
        THEN IF st.section = "Remarks"
             THEN [st EXCEPT !.section = flipped,
                             !.docs[k].Section = "Remark",
                             !.remarks = Append(@, [doc EXCEPT !.Section = "Remark"])]
             ELSE [st EXCEPT !.section = flipped,
                             !.docs[k].Section = "Q&A",
                             !.action_qa = Append(@, [doc EXCEPT !.Section = "Q&A"])]
        ELSE [st EXCEPT !.section = flipped]

\* The loop body that also tags the Moderator lines it drops.
SplitIter_TagsDropped(st, k) ==
    LET doc == st.docs[k]
        speaker == str_strip(doc.speaker)
        content == str_strip(doc.page_content)
        sec == IF st.section = "Remarks" /\ re_search_literal_I(qa_start_pattern, content)
               THEN "Action Q&A" ELSE st.section
    IN  IF str_lower(speaker) # moderator
        THEN IF sec = "Remarks"
             THEN [st EXCEPT !.section = sec,
                             !.docs[k].Section = "Remark",
                             !.remarks = Append(@, [doc EXCEPT !.Section = "Remark"])]
             ELSE [st EXCEPT !.section = sec,
                             !.docs[k].Section = "Q&A",
                             !.action_qa = Append(@, [doc EXCEPT !.Section = "Q&A"])]
        ELSE [st EXCEPT !.section = sec, !.docs[k].Section = "Moderator"]

\* The loop body deciding the section of each utterance from that utterance
\* alone.
SplitIter_PerUtterance(st, k) ==
    LET doc == st.docs[k]
        speaker == str_strip(doc.speaker)
        content == str_strip(doc.page_content)
        sec == IF re_search_literal_I(qa_start_pattern, content)
               THEN "Action Q&A" ELSE "Remarks"
    IN  IF str_lower(speaker) # moderator
        THEN IF sec = "Remarks"
             THEN [st EXCEPT !.section = sec,
                             !.docs[k].Section = "Remark",
                             !.remarks = Append(@, [doc EXCEPT !.Section = "Remark"])]
             ELSE [st EXCEPT !.section = sec,
                             !.docs[k].Section = "Q&A",
                             !.action_qa = Append(@, [doc EXCEPT !.Section = "Q&A"])]
        ELSE [st EXCEPT !.section = sec]

\* The loop body looking for "first question" only.
SplitIter_ShortPhrase(st, k) ==
    LET doc == st.docs[k]
        speaker == str_strip(doc.speaker)
        content == str_strip(doc.page_content)
        sec == IF st.section = "Remarks" /\ re_search_literal_I(txt_first_only, content)
               THEN "Action Q&A" ELSE st.section
    IN  IF str_lower(speaker) # moderator
        THEN IF sec = "Remarks"
             THEN [st EXCEPT !.section = sec,
                             !.docs[k].Section = "Remark",
                             !.remarks = Append(@, [doc EXCEPT !.Section = "Remark"])]
             ELSE [st EXCEPT !.section = sec,
                             !.docs[k].Section = "Q&A",
                             !.action_qa = Append(@, [doc EXCEPT !.Section = "Q&A"])]
        ELSE [st EXCEPT !.section = sec]

\* The loop body comparing the speaker without lower().
SplitIter_NoLower(st, k) ==
    LET doc == st.docs[k]
        speaker == str_strip(doc.speaker)
        content == str_strip(doc.page_content)
        sec == IF st.section = "Remarks" /\ re_search_literal_I(qa_start_pattern, content)
               THEN "Action Q&A" ELSE st.section
    IN  IF speaker # moderator
        THEN IF sec = "Remarks"
             THEN [st EXCEPT !.section = sec,
                             !.docs[k].Section = "Remark",
                             !.remarks = Append(@, [doc EXCEPT !.Section = "Remark"])]
             ELSE [st EXCEPT !.section = sec,
                             !.docs[k].Section = "Q&A",
                             !.action_qa = Append(@, [doc EXCEPT !.Section = "Q&A"])]
        ELSE [st EXCEPT !.section = sec]

\* One pass of "for doc in extract_docs" on the k-th document.  st.docs are the
\* caller's Document objects: doc.metadata["Section"] = ... writes into them.
SplitIter(st, k) ==
    LET doc == st.docs[k]
        speaker == str_strip(doc.speaker)
        content == str_strip(doc.page_content)
        sec == IF st.section = "Remarks" /\ re_search_literal_I(qa_start_pattern, content)
               THEN "Action Q&A" ELSE st.section
    IN  IF str_lower(speaker) # moderator
        THEN IF sec = "Remarks"
             THEN [st EXCEPT !.section = sec,
                             !.docs[k].Section = "Remark",
                             !.remarks = Append(@, [doc EXCEPT !.Section = "Remark"])]
             ELSE IF sec = "Action Q&A"
             THEN [st EXCEPT !.section = sec,
                             !.docs[k].Section = "Q&A",
                             !.action_qa = Append(@, [doc EXCEPT !.Section = "Q&A"])]
             ELSE [st EXCEPT !.section = sec]
        ELSE [st EXCEPT !.section = sec]

SplitStart(docs) ==
    [docs |-> docs, section |-> "Remarks", remarks |-> <<>>, action_qa |-> <<>>]

RECURSIVE SplitLoop(_, _)
SplitLoop(st, k) ==
    IF k > Len(st.docs) THEN st ELSE SplitLoop(SplitIter(st, k), k + 1)

\* The whole function: .remarks and .action_qa are the returned pair, .docs the
\* argument's Documents as the call leaves them.
split_docs_into_sections(docs) == SplitLoop(SplitStart(docs), 1)

\* Inputs of the splitter specification.
SplitSamples ==
    { <<spk_Moderator, txt_hi>>, <<spk_Moderator, txt_first_question>>,
      <<spk_MODERATOR_padded, txt_hi>>, <<spk_Al, txt_hi>>,
      <<spk_Al, txt_first_question_lc>>, <<spk_Bo, txt_first_question>>,
      <<spk_Bo, txt_first_only>> }

SplitInputs ==
    UNION { { [k \in 1..n |-> Document(f[k][2], f[k][1], k, "Questioner", "Investor")]
              : f \in [1..n -> SplitSamples] } : n \in 0..MaxSplitDocs }

SplitIdle ==
    /\ sp_pc = "idle" /\ sp_arg = <<>> /\ extract_docs = <<>> /\ sp_i = 0
    /\ section = "Remarks" /\ remarks = <<>> /\ action_qa = <<>>

SplitInit ==
    /\ sp_pc = "loop"
    /\ sp_arg \in SplitInputs
    /\ extract_docs = sp_arg
    /\ sp_i = 1
    /\ section = "Remarks"
    /\ remarks = <<>>
    /\ action_qa = <<>>

SplitState == [docs |-> extract_docs, section |-> section, remarks |-> remarks,
               action_qa |-> action_qa]

\* for doc in extract_docs: ...
SplitNext ==
    /\ sp_pc = "loop"
    /\ sp_i <= Len(extract_docs)
    /\ LET st == SplitIter(SplitState, sp_i)
       IN  /\ extract_docs' = st.docs
           /\ section' = st.section
           /\ remarks' = st.remarks
           /\ action_qa' = st.action_qa
    /\ sp_i' = sp_i + 1
    /\ UNCHANGED <<sp_pc, sp_arg>>
    /\ UNCHANGED notSplit

\* return remarks, action_qa
SplitReturn ==
    /\ sp_pc = "loop"
    /\ sp_i > Len(extract_docs)
    /\ sp_pc' = "returned"
    /\ UNCHANGED <<sp_arg, extract_docs, sp_i, section, remarks, action_qa>>
    /\ UNCHANGED notSplit

(***************************************************************************)
(* group_by_pattern                                                        *)
(***************************************************************************)

\* The loop body closing a batch on every Questioner document.
GroupIter_CloseOnEveryQ(st, doc) ==
    LET doc_type == IF doc.type = "Questioner" THEN "Q" ELSE "A"
    IN  IF doc_type = "Q"
        THEN IF st.current_qs # <<>> \/ st.current_as # <<>>
             THEN [batches |-> Append(st.batches, <<st.current_qs, st.current_as>>),
                   current_qs |-> <<doc>>, current_as |-> <<>>]
             ELSE [st EXCEPT !.current_qs = Append(@, doc)]
        ELSE [st EXCEPT !.current_as = Append(@, doc)]

\* The loop body that keeps an answer only when a question is pending.
GroupIter_DropsLeadingAnswers(st, doc) ==
    LET doc_type == IF doc.type = "Questioner" THEN "Q" ELSE "A"
    IN  IF doc_type = "Q"
        THEN IF st.current_as # <<>>
             THEN [batches |-> Append(st.batches, <<st.current_qs, st.current_as>>),
                   current_qs |-> <<doc>>, current_as |-> <<>>]
             ELSE [st EXCEPT !.current_qs = Append(@, doc)]
        ELSE IF st.current_qs # <<>>
        THEN [st EXCEPT !.current_as = Append(@, doc)]
        ELSE st

\* One pass of "for doc in qa_docs".
GroupIter(st, doc) ==
    LET doc_type == IF doc.type = "Questioner" THEN "Q" ELSE "A"
    IN  IF doc_type = "Q"
        THEN IF st.current_as # <<>>
             THEN [batches |-> Append(st.batches, <<st.current_qs, st.current_as>>),
                   current_qs |-> <<doc>>, current_as |-> <<>>]
             ELSE [st EXCEPT !.current_qs = Append(@, doc)]
        ELSE IF doc_type = "A"
        THEN [st EXCEPT !.current_as = Append(@, doc)]
        ELSE st

\* The lines after the loop, emitting the last batch only when it has answers.
GroupFinish_NeedsAnswers(st) ==
    IF st.current_as # <<>>
    THEN Append(st.batches, <<st.current_qs, st.current_as>>)
    ELSE st.batches

\* The lines after the loop: the last batch, and the returned list.
GroupFinish(st) ==
    IF st.current_qs # <<>> \/ st.current_as # <<>>
    THEN Append(st.batches, <<st.current_qs, st.current_as>>)
    ELSE st.batches

GroupStart == [batches |-> <<>>, current_qs |-> <<>>, current_as |-> <<>>]

RECURSIVE GroupLoop(_, _, _)
GroupLoop(st, docs, k) ==
    IF k > Len(docs) THEN st ELSE GroupLoop(GroupIter(st, docs[k]), docs, k + 1)

group_by_pattern(docs) == GroupFinish(GroupLoop(GroupStart, docs, 1))

\* Inputs of the batcher specification: Q&A documents as Pattern_extract types
\* them, in transcript order.
QaDoc(k, type) ==
    IF type = "Questioner"
    THEN [Document(txt_hi, spk_Bo, k, "Questioner", "Investor") EXCEPT !.Section = "Q&A"]
    ELSE [Document(txt_hi, spk_Al, k, "Answerer", "Management") EXCEPT !.Section = "Q&A"]

GroupInputs ==
    UNION { { [k \in 1..n |-> QaDoc(k, f[k])]
              : f \in [1..n -> {"Questioner", "Answerer"}] } : n \in 0..MaxQaDocs }

GroupIdle ==
    /\ gb_pc = "idle" /\ qa_docs = <<>> /\ gb_i = 0
    /\ batches = <<>> /\ current_qs = <<>> /\ current_as = <<>>

GroupInit ==
    /\ gb_pc = "loop"
    /\ qa_docs \in GroupInputs
    /\ gb_i = 1
    /\ batches = <<>>
    /\ current_qs = <<>>
    /\ current_as = <<>>

GroupState == [batches |-> batches, current_qs |-> current_qs, current_as |-> current_as]

\* for doc in qa_docs: ...
GroupNext ==
    /\ gb_pc = "loop"
    /\ gb_i <= Len(qa_docs)
    /\ LET st == GroupIter(GroupState, qa_docs[gb_i])
       IN  /\ batches' = st.batches
           /\ current_qs' = st.current_qs
           /\ current_as' = st.current_as
    /\ gb_i' = gb_i + 1
    /\ UNCHANGED <<gb_pc, qa_docs>>
    /\ UNCHANGED notGroup

\* if current_qs or current_as: batches.append(...); return batches
GroupReturn ==
    /\ gb_pc = "loop"
    /\ gb_i > Len(qa_docs)
    /\ batches' = GroupFinish(GroupState)
    /\ gb_pc' = "returned"
    /\ UNCHANGED <<qa_docs, gb_i, current_qs, current_as>>
    /\ UNCHANGED notGroup

(***************************************************************************)
(* Pattern_extract                                                         *)
(***************************************************************************)
\* Bound of the inputs: the number of text pieces a transcript is made of.
MaxChunks == 4

start_phrase_1 == <<"L","a","d","i","e","s"," ","a","n","d"," ","g","e","n","t","l","e","m","e","n",","," ","g","o","o","d"," ","d","a","y">>
start_phrase_2 == <<"G","o","o","d"," ","m","o","r","n","i","n","g",","," ","e","v","e","r","y","o","n","e">>
\* "Welcome to the .* conference call": the two literal ends of the pattern.
start_phrase_3_head == <<"W","e","l","c","o","m","e"," ","t","o"," ","t","h","e"," ">>
start_phrase_3_tail == <<" ","c","o","n","f","e","r","e","n","c","e"," ","c","a","l","l">>

\* "\n".join(parts)
RECURSIVE str_join_newline(_)
str_join_newline(parts) ==
    IF parts = <<>> THEN <<>>
    ELSE IF Len(parts) = 1 THEN parts[1]
    ELSE parts[1] \o <<"\n">> \o str_join_newline(Tail(parts))

\* s[p:] with p a 1-based position.
str_from(s, p) == SubSeq(s, p, Len(s))

\* start_pattern matches at p: one of the three alternatives does, letter case
\* ignored; "." matches any character but a newline.
StartPatternAt(s, p) ==
    \/ LiteralAtI(start_phrase_1, s, p)
    \/ LiteralAtI(start_phrase_2, s, p)
    \/ /\ LiteralAtI(start_phrase_3_head, s, p)
       /\ \E q \in (p + Len(start_phrase_3_head))..Len(s) :
             /\ LiteralAtI(start_phrase_3_tail, s, q)
             /\ \A k \in (p + Len(start_phrase_3_head))..(q - 1) : s[k] # "\n"

\* start_pattern.search(text) scanning from p: the leftmost match start, 0
\* for None.
RECURSIVE start_pattern_search(_, _)
start_pattern_search(s, p) ==
    IF p > Len(s) THEN 0
    ELSE IF StartPatternAt(s, p) THEN p
    ELSE start_pattern_search(s, p + 1)

\* The character class [A-Za-z .'-] of a speaker name.
IsNameChar(c) == IsUpper(c) \/ IsLowerCase(c) \/ c \in {" ", ".", "'", "-"}

\* First position from k on that is past the end or holds no name character.
RECURSIVE NameRunEnd(_, _)
NameRunEnd(s, k) ==
    IF k > Len(s) \/ ~IsNameChar(s[k]) THEN k ELSE NameRunEnd(s, k + 1)

\* "[A-Z][A-Za-z .'-]+:" at p: the position of its colon, 0 when it does not
\* match.  The greedy run stops at the first character outside the class, and
\* only a colon there lets the pattern go on.
SpeakerColon(s, p) ==
    IF p <= Len(s) /\ IsUpper(s[p])
    THEN LET r == NameRunEnd(s, p + 1)
         IN  IF r > p + 1 /\ r <= Len(s) /\ s[r] = ":" THEN r ELSE 0
    ELSE 0

\* First position from k on that is past the end or holds no whitespace.
RECURSIVE SpaceRunEnd(_, _)
SpaceRunEnd(s, k) ==
    IF k > Len(s) \/ ~IsSpace(s[k]) THEN k ELSE SpaceRunEnd(s, k + 1)

\* First position from k on where the lookahead of dialogue_pattern holds: a
\* "Speaker:" token starts there, or the text ends.
RECURSIVE LookaheadHolds(_, _)
LookaheadHolds(s, k) ==
    IF k > Len(s) \/ SpeakerColon(s, k) > 0 THEN k ELSE LookaheadHolds(s, k + 1)

\* dialogue_pattern matches at p.
DialogueAt(s, p) ==
    /\ SpeakerColon(s, p) > 0
    /\ SpeakerColon(s, p) + 1 <= Len(s)
    /\ IsSpace(s[SpeakerColon(s, p) + 1])

\* The match of dialogue_pattern at p: the two groups and the position after
\* the match.  "(.*?)" stops at the first position where the lookahead holds:
\* the next "Speaker:" token, or the end of the text.
DialogueMatch(s, p) ==
    LET r == SpeakerColon(s, p)
        w == SpaceRunEnd(s, r + 1)
        q == LookaheadHolds(s, w)
    IN  [speaker |-> SubSeq(s, p, r - 1), speech |-> SubSeq(s, w, q - 1), end |-> q]

\* dialogue_pattern.findall(s) scanning from p.
RECURSIVE dialogue_findall(_, _)
dialogue_findall(s, p) ==
    IF p > Len(s) THEN <<>>
    ELSE IF DialogueAt(s, p)
         THEN LET m == DialogueMatch(s, p)
              IN  <<m>> \o dialogue_findall(s, m.end)
         ELSE dialogue_findall(s, p + 1)

\* speaker.strip() in management
InList(x, list) == \E k \in 1..Len(list) : list[k] = x

\* The Document built from the i-th match, numbered from 0.
BuildDocument_ZeroBased(m, i, management) ==
    Document(str_strip(m.speech), str_strip(m.speaker), i - 1,
             IF InList(str_strip(m.speaker), management) THEN "Answerer" ELSE "Questioner",
             IF InList(str_strip(m.speaker), management) THEN "Management" ELSE "Investor")

\* The Document built from the i-th match, the speaker looked up in
\* management without regard to letter case.
BuildDocument_IgnoresCase(m, i, management) ==
    LET lowered == [k \in 1..Len(management) |-> str_lower(management[k])]
        member == InList(str_lower(str_strip(m.speaker)), lowered)
    IN  Document(str_strip(m.speech), str_strip(m.speaker), i,
                 IF member THEN "Answerer" ELSE "Questioner",
                 IF member THEN "Management" ELSE "Investor")

\* The Document built from the i-th match (enumerate(matches, start=1)).
BuildDocument(m, i, management) ==
    Document(str_strip(m.speech), str_strip(m.speaker), i,
             IF InList(str_strip(m.speaker), management) THEN "Answerer" ELSE "Questioner",
             IF InList(str_strip(m.speaker), management) THEN "Management" ELSE "Investor")

\* Step 1 without the fallback: no text when no greeting is found.
conversation_text_NoFallback(docs) ==
    LET text == str_join_newline([k \in 1..Len(docs) |-> str_strip(docs[k])])
        match == start_pattern_search(text, 1)
    IN  IF match > 0 THEN str_from(text, match) ELSE <<>>

\* Step 1 of Pattern_extract: the text the dialogues are looked for in.
conversation_text(docs) ==
    LET text == str_join_newline([k \in 1..Len(docs) |-> str_strip(docs[k])])
        match == start_pattern_search(text, 1)
    IN  IF match > 0 THEN str_from(text, match) ELSE text

\* docs: the page_content of each page; management: the list of names.
Pattern_extract(docs, management) ==
    LET matches == dialogue_findall(conversation_text(docs), 1)
    IN  [i \in 1..Len(matches) |-> BuildDocument(matches[i], i, management)]

\* Pieces the input pages are made of.
chunk_Al == <<"A","l",":"," ">>
chunk_Bo_hi == <<"B","o",":"," ","h","i"," ">>
chunk_Al_spaced == <<"A","l"," ",":"," ","h","i"," ">>
chunk_name == spk_Al
chunk_hi == <<"h","i"," ">>
chunk_greeting == start_phrase_2 \o <<" ">>
PageBreak == <<"\f">>

Chunks == {chunk_Al, chunk_Al_spaced, chunk_Bo_hi, chunk_name, chunk_hi, chunk_greeting, PageBreak}

\* The pages of a sequence of pieces: PageBreak ends a page.
RECURSIVE PagesOf(_, _)
PagesOf(pieces, page) ==
    IF pieces = <<>> THEN <<page>>
    ELSE IF pieces[1] = PageBreak THEN <<page>> \o PagesOf(Tail(pieces), <<>>)
    ELSE PagesOf(Tail(pieces), page \o pieces[1])

ExtractInputs ==
    UNION { { PagesOf(f, <<>>) : f \in [1..n -> Chunks] } : n \in 0..MaxChunks }

mgmt_AL == <<"A", "L">>
ManagementLists == { <<>>, <<spk_Al>>, <<mgmt_AL, spk_Bo>> }

ExtractIdle == ex_pc = "idle" /\ ex_docs = <<>> /\ ex_management = <<>> /\ ex_out = <<>>

ExtractInit ==
    /\ ex_pc = "called"
    /\ ex_docs \in ExtractInputs
    /\ ex_management \in ManagementLists
    /\ ex_out = <<>>

\* The call of Pattern_extract(docs, management).
ExtractCall ==
    /\ ex_pc = "called"
    /\ ex_out' = Pattern_extract(ex_docs, ex_management)
    /\ ex_pc' = "returned"
    /\ UNCHANGED <<ex_docs, ex_management>>
    /\ UNCHANGED notExtract

(***************************************************************************)
(* utils/metadata.py: safe_parse and meta_data                             *)
(*                                                                         *)
(* The LLM's reply is a string.  It is modelled by what json decoding      *)
(* makes of it: text that is no JSON document, or a JSON value (string,    *)
(* number, null, list, object; an object key that is missing holds         *)
(* JAbsent).                                                               *)
(***************************************************************************)
\* Bound of the inputs: the number of pages of the loaded document.
MaxMetaPages == 3

digits == <<"0","1","2","3","4","5","6","7","8","9">>

TwoDigits(n) == <<digits[((n \div 10) % 10) + 1], digits[(n % 10) + 1]>>
FourDigits(n) == TwoDigits(n \div 100) \o TwoDigits(n % 100)

\* date.strftime("%d-%m-%Y")
strftime_dmY(d) == TwoDigits(d.day) \o <<"-">> \o TwoDigits(d.month) \o <<"-">> \o FourDigits(d.year)

No_data == <<"N","o"," ","d","a","t","a">>

\* default_dict, built when the module is imported on the date today.
default_dict(today) ==
    [py_type |-> "dict",
     company_name |-> No_data,
     conference_call_date |-> strftime_dmY(today),
     management_participants |-> << [name |-> No_data, designation |-> No_data] >>]

JAbsent == [t |-> "absent"]
JNull == [t |-> "null"]
JStr(v) == [t |-> "str", v |-> v]
JNum(v) == [t |-> "num", v |-> v]
JList(v) == [t |-> "list", v |-> v]
JParticipant(name, designation) == [t |-> "obj", name |-> name, designation |-> designation]
JCall(company, date, participants) ==
    [t |-> "obj", company_name |-> company, conference_call_date |-> date,
     management_participants |-> participants]

\* A reply that is no JSON document, and one that json decoding turns into v.
ReplyText == [json |-> FALSE]
ReplyJson(v) == [json |-> TRUE, value |-> v]

\* pydantic validation of the Participant and ConferenceCall schemas: every
\* field is required and a str field takes a JSON string only.
ValidParticipant(p) ==
    /\ p.t = "obj"
    /\ p.name.t = "str"
    /\ p.designation.t = "str"

ValidConferenceCall(v) ==
    /\ v.t = "obj"
    /\ v.company_name.t = "str"
    /\ v.conference_call_date.t = "str"
    /\ v.management_participants.t = "list"
    /\ \A k \in 1..Len(v.management_participants.v) :
          ValidParticipant(v.management_participants.v[k])

\* ConferenceCall.model_validate_json(response) returns a model.
ValidatesAsConferenceCall(response) ==
    response.json /\ ValidConferenceCall(response.value)

\* The ConferenceCall instance model_validate_json returns.
ConferenceCall(v) ==
    [py_type |-> "ConferenceCall",
     company_name |-> v.company_name.v,
     conference_call_date |-> v.conference_call_date.v,
     management_participants |->
        [k \in 1..Len(v.management_participants.v) |->
            [name |-> v.management_participants.v[k].name.v,
             designation |-> v.management_participants.v[k].designation.v]]]

\* safe_parse(response, ConferenceCall, default): the model, or the default
\* dict when decoding or validation raised.
safe_parse(response, default) ==
    IF ValidatesAsConferenceCall(response) THEN ConferenceCall(response.value) ELSE default

Raised(exc) == [raised |-> exc]
Returned(v) == [raised |-> "none", value |-> v]

\* json.loads(result.model_dump_json(indent=2)): the fields as a plain dict.
model_dump_dict(result) == [result EXCEPT !.py_type = "dict"]

\* meta_data(docs).  reply is what the LLM answers, llm_ok whether the call to
\* it came back at all, today the date default_dict was built on.
meta_data(docs, reply, llm_ok, today) ==
    IF Len(docs) < 2 THEN Raised("IndexError")
    ELSE IF ~llm_ok THEN Raised("LLMError")
    ELSE LET result == safe_parse(reply, default_dict(today))
         IN  IF result.py_type = "ConferenceCall"
             THEN Returned(model_dump_dict(result))
             ELSE Raised("AttributeError")

\* Replies and dates the inputs are drawn from.
name_Acme == <<"A","c","m","e">>
date_text == <<"1","4","-","0","8","-","2","0","2","3">>
title_CEO == <<"C","E","O">>

CompanyValues == {JAbsent, JNull, JNum(7), JStr(name_Acme)}
DateValues == {JAbsent, JNum(2024), JStr(date_text)}
ParticipantLists ==
    { JAbsent, JStr(spk_Al), JList(<<>>),
      JList(<< JParticipant(JStr(spk_Al), JStr(title_CEO)) >>),
      JList(<< JParticipant(JStr(spk_Al), JStr(title_CEO)), JParticipant(JStr(spk_Bo), JAbsent) >>),
      JList(<< JParticipant(JStr(spk_Al), JStr(title_CEO)), JParticipant(JStr(spk_Bo), JStr(title_CEO)) >>) }

MetaReplies ==
    {ReplyText, ReplyJson(JNull), ReplyJson(JList(<<>>))}
    \cup { ReplyJson(JCall(c, d, p)) : c \in CompanyValues, d \in DateValues, p \in ParticipantLists }

Dates == { [day |-> 3, month |-> 11, year |-> 2026], [day |-> 25, month |-> 1, year |-> 2024] }

MetaIdle ==
    /\ md_pc = "idle" /\ md_docs = <<>> /\ md_reply = ReplyText /\ md_llm_ok = TRUE
    /\ md_today = [day |-> 1, month |-> 1, year |-> 2024] /\ md_out = Raised("none")

MetaInit ==
    /\ md_pc = "called"
    /\ md_docs \in UNION { [1..n -> {txt_hi}] : n \in 1..MaxMetaPages }
    /\ md_reply \in MetaReplies
    /\ md_llm_ok \in BOOLEAN
    /\ md_today \in Dates
    /\ md_out = Raised("none")

\* The call of meta_data(docs).
MetaCall ==
    /\ md_pc = "called"
    /\ md_out' = meta_data(md_docs, md_reply, md_llm_ok, md_today)
    /\ md_pc' = "done"
    /\ UNCHANGED <<md_docs, md_reply, md_llm_ok, md_today>>
    /\ UNCHANGED notMeta

(***************************************************************************)
(* utils/create_topics.py: safe_parse and extract_topics                   *)
(***************************************************************************)
\* Bound of the inputs: the number of documents handed to extract_topics.
MaxTopicDocs == 3

\* default_dict of create_topics.py.
default_dict_topics == [py_type |-> "dict", topics |-> <<>>]

\* The JSON object {"topics": topics}; JAbsent when the key is missing.
JTopics(topics) == [t |-> "obj", topics |-> topics]

\* pydantic validation of TopicsOutput: topics is required and is a list of
\* JSON strings.
ValidTopicsOutput(v) ==
    /\ v.t = "obj"
    /\ v.topics.t = "list"
    /\ \A k \in 1..Len(v.topics.v) : v.topics.v[k].t = "str"

\* TopicsOutput.model_validate_json(response) returns a model.
ValidatesAsTopicsOutput(response) ==
    response.json /\ ValidTopicsOutput(response.value)

\* The TopicsOutput instance model_validate_json returns.
TopicsOutput(v) ==
    [py_type |-> "TopicsOutput", topics |-> [k \in 1..Len(v.topics.v) |-> v.topics.v[k].v]]

\* safe_parse(response, TopicsOutput, default) of create_topics.py.
safe_parse_topics(response, default) ==
    IF ValidatesAsTopicsOutput(response) THEN TopicsOutput(response.value) ELSE default

\* " ".join([doc.page_content for doc in docs])
RECURSIVE str_join_space(_)
str_join_space(contents) ==
    IF contents = <<>> THEN <<>>
    ELSE IF Len(contents) = 1 THEN contents[1]
    ELSE contents[1] \o <<" ">> \o str_join_space(Tail(contents))

\* extract_topics(docs).  reply is what the LLM answers when it is sent
\* combined_text, llm_ok whether the call to it came back at all.
extract_topics(docs, reply, llm_ok) ==
    LET combined_text == str_join_space([k \in 1..Len(docs) |-> docs[k].page_content])
    IN  IF ~llm_ok THEN Raised("LLMError")
        ELSE LET result == safe_parse_topics(reply, default_dict_topics)
             IN  IF result.py_type = "TopicsOutput"
                 THEN Returned(model_dump_dict(result))
                 ELSE Raised("AttributeError")

\* Replies the inputs are drawn from.
topic_Growth == <<"G","r","o","w","t","h">>
topic_Margins == <<"M","a","r","g","i","n","s">>

TopicValues ==
    { JAbsent, JNull, JStr(topic_Growth), JList(<<>>),
      JList(<< JStr(topic_Growth) >>),
      JList(<< JStr(topic_Growth), JStr(topic_Margins) >>),
      JList(<< JStr(topic_Growth), JNum(5) >>),
      JList(<< JNull >>) }

TopicReplies ==
    {ReplyText, ReplyJson(JNull), ReplyJson(JList(<<>>))}
    \cup { ReplyJson(JTopics(x)) : x \in TopicValues }

TopicDocs ==
    UNION { { [k \in 1..n |-> Document(f[k], spk_Al, k, "Answerer", "Management")]
              : f \in [1..n -> {txt_hi, txt_first_question}] } : n \in 0..MaxTopicDocs }

TopicsIdle ==
    /\ tp_pc = "idle" /\ tp_docs = <<>> /\ tp_reply = ReplyText /\ tp_llm_ok = TRUE
    /\ tp_out = Raised("none")

TopicsInit ==
    /\ tp_pc = "called"
    /\ tp_docs \in TopicDocs
    /\ tp_reply \in TopicReplies
    /\ tp_llm_ok \in BOOLEAN
    /\ tp_out = Raised("none")

\* The call of extract_topics(docs).
TopicsCall ==
    /\ tp_pc = "called"
    /\ tp_out' = extract_topics(tp_docs, tp_reply, tp_llm_ok)
    /\ tp_pc' = "done"
    /\ UNCHANGED <<tp_docs, tp_reply, tp_llm_ok>>
    /\ UNCHANGED notTopics

(***************************************************************************)
(* app.py lines 178, 179 and 256: the pipeline Pattern_extract ->          *)
(* split_docs_into_sections -> group_by_pattern as one session runs it,    *)
(* and runs it again on the same pages and participant list.  The results  *)
(* of a run stay in the session while the next run executes.               *)
(***************************************************************************)
\* Bound of the inputs: the pieces the pages of the pipeline are made of.
MaxPipelineChunks == 4

pipe_Moderator_phrase == <<"M","o","d","e","r","a","t","o","r",":"," ","n","o","w"," ","t","h","e"," ","f","i","r","s","t"," ","q","u","e","s","t","i","o","n",","," ">>
pipe_Al_hi == <<"A","l",":"," ","h","i"," ">>
pipe_Bo_hi == <<"B","o",":"," ","h","i"," ">>
pipe_Bo_phrase == <<"B","o",":"," ","t","h","e"," ","F","i","r","s","t"," ","q","u","e","s","t","i","o","n","?"," ">>

PipelineChunks == {pipe_Moderator_phrase, pipe_Al_hi, pipe_Bo_hi, pipe_Bo_phrase, PageBreak}

PipelineInputs ==
    UNION { { PagesOf(f, <<>>) : f \in [1..n -> PipelineChunks] } : n \in 0..MaxPipelineChunks }

NoResults == [pattern |-> <<>>, remarks |-> <<>>, QA |-> <<>>, qa_batches |-> <<>>]

PipelineIdle ==
    /\ pl_pc = "idle" /\ pl_docs = <<>> /\ pl_management = <<>> /\ pl_run = 0
    /\ pl_pattern = <<>> /\ pl_remarks = <<>> /\ pl_QA = <<>> /\ pl_qa_batches = <<>>
    /\ pl_first = NoResults

PipelineInit ==
    /\ pl_pc = "start"
    /\ pl_docs \in PipelineInputs
    /\ pl_management \in ManagementLists
    /\ pl_run = 1
    /\ pl_pattern = <<>> /\ pl_remarks = <<>> /\ pl_QA = <<>> /\ pl_qa_batches = <<>>
    /\ pl_first = NoResults

\* st.session_state.pattern = Pattern_extract(docs=..., management=particpants)
PipeExtract ==
    /\ pl_pc = "start"
    /\ pl_pattern' = Pattern_extract(pl_docs, pl_management)
    /\ pl_pc' = "extracted"
    /\ UNCHANGED <<pl_docs, pl_management, pl_run, pl_remarks, pl_QA, pl_qa_batches, pl_first>>
    /\ UNCHANGED notPipeline

\* A splitter that appends to the lists the session already holds.
PipeSplit_AppendsToSession ==
    /\ pl_pc = "extracted"
    /\ LET st == split_docs_into_sections(pl_pattern)
       IN  /\ pl_pattern' = st.docs
           /\ pl_remarks' = pl_remarks \o st.remarks
           /\ pl_QA' = pl_QA \o st.action_qa
    /\ pl_pc' = "split"
    /\ UNCHANGED <<pl_docs, pl_management, pl_run, pl_qa_batches, pl_first>>
    /\ UNCHANGED notPipeline

\* st.session_state.remarks, st.session_state.QA =
\*     split_docs_into_sections(st.session_state.pattern)
\* The call tags the Documents of the pattern list it is given.
PipeSplit ==
    /\ pl_pc = "extracted"
    /\ LET st == split_docs_into_sections(pl_pattern)
       IN  /\ pl_pattern' = st.docs
           /\ pl_remarks' = st.remarks
           /\ pl_QA' = st.action_qa
    /\ pl_pc' = "split"
    /\ UNCHANGED <<pl_docs, pl_management, pl_run, pl_qa_batches, pl_first>>
    /\ UNCHANGED notPipeline

\* qa_batches = group_by_pattern(st.session_state.QA)
PipeGroup ==
    /\ pl_pc = "split"
    /\ pl_qa_batches' = group_by_pattern(pl_QA)
    /\ pl_pc' = "grouped"
    /\ UNCHANGED <<pl_docs, pl_management, pl_run, pl_pattern, pl_remarks, pl_QA, pl_first>>
    /\ UNCHANGED notPipeline

\* The pipeline is run again on the same pages; what the first run produced
\* is kept for comparison and is still in the session.
PipeRerun ==
    /\ pl_pc = "grouped"
    /\ pl_run = 1
    /\ pl_first' = [pattern |-> pl_pattern, remarks |-> pl_remarks, QA |-> pl_QA,
                    qa_batches |-> pl_qa_batches]
    /\ pl_run' = 2
    /\ pl_pc' = "start"
    /\ UNCHANGED <<pl_docs, pl_management, pl_pattern, pl_remarks, pl_QA, pl_qa_batches>>
    /\ UNCHANGED notPipeline

(***************************************************************************)
(* utils/doc_parser.py file_load, and the branches of the "Load Data" page *)
(* of app.py that call it.                                                 *)
(*                                                                         *)
(* A PDF is its pages; a page is the text lying in the top 50 points, in   *)
(* the body and in the bottom 50 points, and whether an image lies in each *)
(* of the three.  st.cache_data keeps the value file_load returned for a   *)
(* (path, default) pair for the life of the server, for all sessions.      *)
(***************************************************************************)
LoadSessions == {"s1", "s2"}

\* file_path: the demo transcript in the working directory.
file_path == <<"cwd", "Q2FY24_LaurusLabs_EarningsCallTranscript.pdf">>

\* os.path.join(upload_folder, uploaded_file.name)
upload_tmp_path(name) == <<"temp_uploads", name>>

UploadNames == {"call.pdf", "q2.pdf"}
LoadPaths == {file_path} \cup {upload_tmp_path(n) : n \in UploadNames}

MissingFile == [kind |-> "missing", pages |-> <<>>]
CorruptFile == [kind |-> "corrupt", pages |-> <<>>]
Pdf(pages) == [kind |-> "pdf", pages |-> pages]

PdfPage(header, body, footer, header_image, body_image, footer_image) ==
    [header |-> header, body |-> body, footer |-> footer,
     header_image |-> header_image, body_image |-> body_image,
     footer_image |-> footer_image]

page_logo == PdfPage("Acme Ltd", "Al: hi", "Page 1", TRUE, FALSE, FALSE)
page_plain == PdfPage("", "Bo: hi", "", FALSE, TRUE, FALSE)
page_stamp == PdfPage("Q2 FY24", "Moderator: hi", "Confidential", FALSE, FALSE, TRUE)

\* add_redact_annot on the two bands and
\* apply_redactions(images=fitz.PDF_REDACT_IMAGE_NONE): the text of the bands
\* is removed, images are ignored.
apply_redactions(page) == [page EXCEPT !.header = "", !.footer = ""]

\* The text PyMuPDFLoader reads from a page: its text blocks, top to bottom.
page_text(page) == SelectSeq(<<page.header, page.body, page.footer>>, LAMBDA t : t # "")

\* loader.load(): one Document per page.
loader_load(file) == [k \in 1..Len(file.pages) |-> page_text(file.pages[k])]

NotCached == [hit |-> FALSE, data |-> <<>>]
Cached(data) == [hit |-> TRUE, data |-> data]

\* file_load(path, default) with the files on disk and the cache as they are.
\* The result is what the call returns or raises, and the files and the cache
\* it leaves.
file_load(path, default, files, cache) ==
    IF cache[<<path, default>>].hit
    THEN [out |-> Returned(cache[<<path, default>>].data), files |-> files, cache |-> cache]
    ELSE IF files[path].kind = "missing"
    THEN [out |-> Raised("FileNotFoundError"), files |-> files, cache |-> cache]
    ELSE IF files[path].kind = "corrupt"
    THEN [out |-> Raised("FileDataError"), files |-> files, cache |-> cache]
    ELSE LET redacted == Pdf([k \in 1..Len(files[path].pages) |->
                                 apply_redactions(files[path].pages[k])])
             saved == [files EXCEPT ![path] = redacted]
             loaded == saved[IF default THEN file_path ELSE path]
         IN  IF loaded.kind = "missing"
             THEN [out |-> Raised("FileNotFoundError"), files |-> saved, cache |-> cache]
             ELSE IF loaded.kind = "corrupt"
             THEN [out |-> Raised("FileDataError"), files |-> saved, cache |-> cache]
             ELSE [out |-> Returned(loader_load(loaded)), files |-> saved,
                   cache |-> [cache EXCEPT ![<<path, default>>] = Cached(loader_load(loaded))]]

\* The files a user may drop on the uploader, and the demo transcript as it
\* may be found in the working directory.
UploadedFiles ==
    { CorruptFile, Pdf(<<page_logo>>), Pdf(<<page_plain, page_stamp>>) }
DemoFiles == { MissingFile, Pdf(<<page_stamp, page_logo>>) }

NewLoadSession == [docs |-> <<>>, load_flag |-> FALSE, processed |-> FALSE]

\* What the latest load did: the file it was given, the result of file_load,
\* and the file file_load left at the path.
LoadRun(s, given, r, path) ==
    [session |-> s, given |-> given, out |-> r.out, left |-> r.files[path]]
NoLoadRun ==
    [session |-> "none", given |-> MissingFile, out |-> Raised("none"), left |-> MissingFile]

LoadIdle ==
    /\ fl_files = [p \in LoadPaths |-> MissingFile]
    /\ fl_cache = [key \in LoadPaths \X BOOLEAN |-> NotCached]
    /\ fl_session = [s \in LoadSessions |-> NewLoadSession]
    /\ fl_last = NoLoadRun

LoadInit ==
    /\ \E demo \in DemoFiles :
          fl_files = [p \in LoadPaths |-> IF p = file_path THEN demo ELSE MissingFile]
    /\ fl_cache = [key \in LoadPaths \X BOOLEAN |-> NotCached]
    /\ fl_session = [s \in LoadSessions |-> NewLoadSession]
    /\ fl_last = NoLoadRun

\* "Load Demo Transcript": file_load(st.session_state["data"], True), the two
\* session writes and st.rerun(), whose run draws the loaded page and with it
\* starts metadata extraction, Pattern_extract, the split and create_store.
\* When file_load raises the script run ends at the call.
LoadDemo(s) ==
    /\ ~fl_session[s].load_flag
    /\ LET r == file_load(file_path, TRUE, fl_files, fl_cache)
       IN  /\ fl_files' = r.files
           /\ fl_cache' = r.cache
           /\ fl_last' = LoadRun(s, fl_files[file_path], r, file_path)
           /\ fl_session' =
                 IF r.out.raised = "none"
                 THEN [fl_session EXCEPT ![s] =
                          [docs |-> r.out.value, load_flag |-> TRUE, processed |-> TRUE]]
                 ELSE fl_session
    /\ UNCHANGED notLoad

\* A file dropped on the uploader: it is written to tmp_path, then
\* file_load(tmp_path, False), the session writes, os.remove(tmp_path) and
\* st.rerun().  When file_load raises the script run ends at the call and the
\* written file stays.
LoadUpload(s, name, uploaded_file) ==
    /\ ~fl_session[s].load_flag
    /\ LET tmp_path == upload_tmp_path(name)
           written == [fl_files EXCEPT ![tmp_path] = uploaded_file]
           r == file_load(tmp_path, FALSE, written, fl_cache)
       IN  /\ fl_cache' = r.cache
           /\ fl_last' = LoadRun(s, uploaded_file, r, tmp_path)
           /\ IF r.out.raised = "none"
              THEN /\ fl_files' = [r.files EXCEPT ![tmp_path] = MissingFile]
                   /\ fl_session' = [fl_session EXCEPT ![s] =
                         [docs |-> r.out.value, load_flag |-> TRUE, processed |-> TRUE]]
              ELSE /\ fl_files' = r.files
                   /\ UNCHANGED fl_session
    /\ UNCHANGED notLoad

(***************************************************************************)
(* api/embedding.py create_store and utils/rag.py rag_pipeline             *)
(*                                                                         *)
(* The directory "faiss_index" holds two files: index.faiss (one vector    *)
(* per indexed Document) and index.pkl (the Documents themselves, by       *)
(* position).  A file is modelled by the Document list it was written from.*)
(***************************************************************************)
\* similarity_search_with_score(user_input, k=10)
K == 10

\* Bounds: the indexed utterances of the retrieval inputs, and the number of
\* distance values the embedding is taken to produce.
MaxIndexDocs == 12
DistanceLevels == 5

AbsentFile == [exists |-> FALSE, docs |-> <<>>]
FileOf(documents) == [exists |-> TRUE, docs |-> documents]

NoIndex == [faiss |-> AbsentFile, pkl |-> AbsentFile]

\* The distance the embedding model puts between a query and a Document.  The
\* model is a remote service; a query is represented by a number that selects
\* one table of distances.
EmbeddingDistance(q, doc) == ((q * doc.order) + Len(doc.page_content)) % DistanceLevels

\* Positions of the vectors in index.faiss, nearest first, nearer position
\* first among equals.
RECURSIVE NearestFirst(_, _, _)
NearestFirst(q, vectors, left) ==
    IF left = {} THEN <<>>
    ELSE LET best == CHOOSE i \in left : \A j \in left :
                        \/ EmbeddingDistance(q, vectors[i]) < EmbeddingDistance(q, vectors[j])
                        \/ /\ EmbeddingDistance(q, vectors[i]) = EmbeddingDistance(q, vectors[j])
                           /\ i <= j
         IN  <<best>> \o NearestFirst(q, vectors, left \ {best})

Take(seq, n) == SubSeq(seq, 1, IF Len(seq) < n THEN Len(seq) ELSE n)
Reverse(seq) == [i \in 1..Len(seq) |-> seq[Len(seq) + 1 - i]]

\* The order in which the index hands back its k hits: FAISS answers nearest
\* first; another index may answer farthest first or in insertion order.
LibOrders == {"nearest_first", "farthest_first", "insertion"}

RECURSIVE InsertByPosition(_, _)
InsertByPosition(sorted, i) ==
    IF sorted = <<>> THEN <<i>>
    ELSE IF i < sorted[1] THEN <<i>> \o sorted
    ELSE <<sorted[1]>> \o InsertByPosition(Tail(sorted), i)

RECURSIVE SortByPosition(_)
SortByPosition(seq) ==
    IF seq = <<>> THEN <<>> ELSE InsertByPosition(SortByPosition(Tail(seq)), seq[1])

HitPositions(index, q, k, lib_order) ==
    LET hits == Take(NearestFirst(q, index.faiss.docs, 1..Len(index.faiss.docs)), k)
    IN  IF lib_order = "nearest_first" THEN hits
        ELSE IF lib_order = "farthest_first" THEN Reverse(hits)
        ELSE SortByPosition(hits)

\* similarity_search_with_score: the (Document, score) pairs of the k nearest
\* vectors.  A hit's Document is looked up by position in index.pkl; a
\* position index.pkl does not hold raises KeyError.
similarity_search_with_score(index, q, k, lib_order) ==
    LET hits == HitPositions(index, q, k, lib_order)
    IN  IF \E h \in 1..Len(hits) : hits[h] > Len(index.pkl.docs)
        THEN Raised("KeyError")
        ELSE Returned([h \in 1..Len(hits) |->
                          <<index.pkl.docs[hits[h]],
                            EmbeddingDistance(q, index.faiss.docs[hits[h]])>>])

\* list.sort(key=lambda x: x[1]) without reverse=True.
RECURSIVE sort_by_score_ascending(_)
sort_by_score_ascending(pairs) ==
    IF pairs = <<>> THEN <<>>
    ELSE LET rest == sort_by_score_ascending(Tail(pairs))
             before == {i \in 1..Len(rest) : rest[i][2] < pairs[1][2]}
             n == Cardinality(before)
         IN  SubSeq(rest, 1, n) \o <<pairs[1]>> \o SubSeq(rest, n + 1, Len(rest))

\* docs_with_scores.sort(key=lambda x: x[1], reverse=True): descending by
\* score, pairs of equal score in their original order (the sort is stable).
RECURSIVE sort_by_score_reverse(_)
sort_by_score_reverse(pairs) ==
    IF pairs = <<>> THEN <<>>
    ELSE LET rest == sort_by_score_reverse(Tail(pairs))
             before == {i \in 1..Len(rest) : rest[i][2] > pairs[1][2]}
             n == Cardinality(before)
         IN  SubSeq(rest, 1, n) \o <<pairs[1]>> \o SubSeq(rest, n + 1, Len(rest))

\* rag_pipeline(user_input) against the files now on disk.  services_ok: the
\* embedding endpoint and the chat model both answered.
rag_pipeline(index, user_input, lib_order, services_ok) ==
    IF ~index.faiss.exists THEN Raised("RuntimeError")
    ELSE IF ~index.pkl.exists THEN Raised("FileNotFoundError")
    ELSE IF ~services_ok THEN Raised("ServiceError")
    ELSE LET found == similarity_search_with_score(index, user_input, K, lib_order)
         IN  IF found.raised # "none" THEN found
             ELSE Returned([result |-> "answer",
                            docs_with_scores |-> sort_by_score_reverse(found.value)])

\* Inputs of the retrieval specification.
IndexedDocs(n) == [k \in 1..n |-> QaDoc(k, IF k % 2 = 1 THEN "Questioner" ELSE "Answerer")]

RagIndexes ==
    {NoIndex}
    \cup { [faiss |-> FileOf(IndexedDocs(n)), pkl |-> FileOf(IndexedDocs(n))] : n \in 1..MaxIndexDocs }
    \cup { [faiss |-> FileOf(IndexedDocs(n)), pkl |-> AbsentFile] : n \in 1..2 }
    \cup { [faiss |-> FileOf(IndexedDocs(n)), pkl |-> FileOf(IndexedDocs(m))] : n, m \in 1..3 }

Queries == {1, 2, DistanceLevels}

RagIdle ==
    /\ rg_pc = "idle" /\ rg_index = NoIndex /\ rg_query = 0
    /\ rg_lib_order = "nearest_first" /\ rg_services_ok = TRUE /\ rg_out = Raised("none")

RagInit ==
    /\ rg_pc = "called"
    /\ rg_index \in RagIndexes
    /\ rg_query \in Queries
    /\ rg_lib_order \in LibOrders
    /\ rg_services_ok \in BOOLEAN
    /\ rg_out = Raised("none")

\* The call of rag_pipeline(user_input).
RagCall ==
    /\ rg_pc = "called"
    /\ rg_out' = rag_pipeline(rg_index, rg_query, rg_lib_order, rg_services_ok)
    /\ rg_pc' = "done"
    /\ UNCHANGED <<rg_index, rg_query, rg_lib_order, rg_services_ok>>
    /\ UNCHANGED notRag

(***************************************************************************)
(* app.py: the Streamlit script.  Every user interaction runs the script   *)
(* from the top for that browser session; st.session_state is per session, *)
(* the directory "faiss_index" and the worker threads are shared by the    *)
(* whole server process.                                                   *)
(***************************************************************************)
\* Bound: how many create_store tasks are submitted in a run of the model.
MaxSubmits == 2

Sessions == {"s1", "s2"}
Pages == {"Load Data", "Opening Remarks", "Q&A Session", "AI Assistant"}

\* The redacted pages file_load returns for the two documents of the model.
demo_pages ==
    << <<"G","o","o","d"," ","m","o","r","n","i","n","g",","," ","e","v","e","r","y","o","n","e"," ","M","o","d","e","r","a","t","o","r",":"," ","h","i"," ","A","l",":"," ","h","i"," ">>,
       <<"M","o","d","e","r","a","t","o","r",":"," ","T","h","e"," ","f","i","r","s","t"," ","q","u","e","s","t","i","o","n"," ","i","s"," ","f","r","o","m"," ","B","o"," ","B","o",":"," ","h","i"," ","A","l",":"," ","h","i">> >>
upload_pages ==
    << <<"B","o",":"," ","h","i"," ">>,
       <<"A","l",":"," ","t","h","e"," ","f","i","r","s","t"," ","q","u","e","s","t","i","o","n"," ","B","o",":"," ","h","i">> >>

\* What the metadata LLM answers in the application runs.
AppReplies ==
    { ReplyText,
      ReplyJson(JCall(JStr(name_Acme), JStr(date_text),
                      JList(<< JParticipant(JStr(spk_Al), JStr(title_CEO)) >>))) }

AppToday == [day |-> 3, month |-> 11, year |-> 2026]

\* Pattern_extract followed by split_docs_into_sections, as lines 178-179 of
\* app.py call them, for the documents and participant lists of the model.
AppParticipants ==
    { [k \in 1..Len(r.value.management_participants.v) |->
          r.value.management_participants.v[k].name.v]
      : r \in {x \in AppReplies : ValidatesAsConferenceCall(x)} }

Sectioned ==
    [docs \in {demo_pages, upload_pages}, particpants \in AppParticipants |->
        split_docs_into_sections(Pattern_extract(docs, particpants))]

NewSession == [docs |-> <<>>, load_flag |-> FALSE, pattern |-> <<>>, remarks |-> <<>>, QA |-> <<>>]

\* What the latest script run showed: an uncaught exception, or a value.
\* query: the run called rag_pipeline.  session: the session whose run
\* called it ("none" for a run that made no query).
Run(out, query) ==
    [out |-> out, query |-> query, session |-> "none",
     index_absent |-> ~faiss_index.faiss.exists \/ ~faiss_index.pkl.exists,
     after_failed_build |->
        LET failures == Cardinality({i \in 1..Len(tasks) : tasks[i].pc = "failed"})
        IN  /\ failures > 0
            /\ ~\E i \in 1..Len(tasks) : tasks[i].pc = "done" /\ tasks[i].fails_seen = failures]

NoRun == [out |-> Raised("none"), query |-> FALSE, session |-> "none",
          index_absent |-> TRUE, after_failed_build |-> FALSE]

\* A build failed and no build triggered after the failure has completed.
FailedBuildPending ==
    LET failures == Cardinality({i \in 1..Len(tasks) : tasks[i].pc = "failed"})
    IN  /\ failures > 0
        /\ ~\E i \in 1..Len(tasks) : tasks[i].pc = "done" /\ tasks[i].fails_seen = failures

\* executor.submit(create_store, documents): a worker thread starts on it.
Submit(s, documents) ==
    Append(tasks, [owner |-> s, documents |-> documents, pc |-> "running",
                   fails_seen |-> Cardinality({i \in 1..Len(tasks) : tasks[i].pc = "failed"})])

AppInit ==
    /\ session_state = [s \in Sessions |-> NewSession]
    /\ option = [s \in Sessions |-> "Load Data"]
    /\ faiss_index = NoIndex
    /\ tasks = <<>>
    /\ last_run = NoRun

AppIdle == AppInit

\* The "Load Data" page with load_flag set (the else branch): metadata,
\* extraction, splitting, and the submission of create_store.  ss is the
\* session's state when the page is drawn.
RenderLoaded(s, ss) ==
    \E reply \in AppReplies, llm_ok \in BOOLEAN :
        LET meta_info == meta_data(ss.docs, reply, llm_ok, AppToday)
        IN  IF meta_info.raised # "none"
            THEN /\ session_state' = [session_state EXCEPT ![s] = ss]
                 /\ last_run' = Run(meta_info, FALSE)
                 /\ UNCHANGED tasks
            ELSE LET mp == meta_info.value.management_participants
                     particpants == [k \in 1..Len(mp) |-> mp[k].name]
                     sp == Sectioned[ss.docs, particpants]
                 IN  /\ Len(tasks) < MaxSubmits
                     /\ session_state' = [session_state EXCEPT ![s] =
                           [ss EXCEPT !.pattern = sp.docs, !.remarks = sp.remarks,
                                      !.QA = sp.action_qa]]
                     /\ tasks' = Submit(s, sp.remarks \o sp.action_qa)
                     /\ last_run' = Run(Returned("overview"), FALSE)

\* The user picks another entry of the option menu and the script runs for it.
\* Only "Load Data" with a loaded transcript does more than display.
SelectPage(s, o) ==
    /\ o # option[s]
    /\ option' = [option EXCEPT ![s] = o]
    /\ IF o = "Load Data" /\ session_state[s].load_flag
       THEN RenderLoaded(s, session_state[s])
       ELSE /\ last_run' = Run(Returned("page"), FALSE)
            /\ UNCHANGED <<session_state, tasks>>
    /\ UNCHANGED faiss_index
    /\ UNCHANGED notApp

\* "Load Demo Transcript" or a file dropped on the uploader, with load_flag
\* unset: file_load, the two session writes, st.rerun(), and with it the
\* loaded page.
LoadTranscript(s, pages) ==
    /\ option[s] = "Load Data"
    /\ ~session_state[s].load_flag
    /\ RenderLoaded(s, [session_state[s] EXCEPT !.docs = pages, !.load_flag = TRUE])
    /\ UNCHANGED <<option, faiss_index>>
    /\ UNCHANGED notApp

\* The same click when file_load raises: the script run ends there.
LoadFails(s) ==
    /\ option[s] = "Load Data"
    /\ ~session_state[s].load_flag
    /\ last_run' = Run(Raised("FileDataError"), FALSE)
    /\ UNCHANGED <<session_state, option, faiss_index, tasks>>
    /\ UNCHANGED notApp

\* A question typed on the "AI Assistant" page.
Ask(s, user_input, services_ok) ==
    /\ option[s] = "AI Assistant"
    /\ last_run' =
          IF session_state[s].docs # <<>>
          THEN [Run(rag_pipeline(faiss_index, user_input, "nearest_first", services_ok), TRUE)
                   EXCEPT !.session = s]
          ELSE Run(Returned("Please load your documents first"), FALSE)
    /\ UNCHANGED <<session_state, option, faiss_index, tasks>>
    /\ UNCHANGED notApp

\* create_store in a worker thread: FAISS.from_documents succeeded and
\* save_local has written index.faiss.
BuildWriteFaiss(i) ==
    /\ tasks[i].pc = "running"
    /\ tasks[i].documents # <<>>
    /\ faiss_index' = [faiss_index EXCEPT !.faiss = FileOf(tasks[i].documents)]
    /\ tasks' = [tasks EXCEPT ![i].pc = "writing"]
    /\ UNCHANGED <<session_state, option, last_run>>
    /\ UNCHANGED notApp

\* save_local writes index.pkl and create_store returns.
BuildWritePkl(i) ==
    /\ tasks[i].pc = "writing"
    /\ faiss_index' = [faiss_index EXCEPT !.pkl = FileOf(tasks[i].documents)]
    /\ tasks' = [tasks EXCEPT ![i].pc = "done"]
    /\ UNCHANGED <<session_state, option, last_run>>
    /\ UNCHANGED notApp

\* FAISS.from_documents raises (the embedding endpoint fails, or the list is
\* empty): the exception stays in the Future nobody reads.
BuildFails(i) ==
    /\ tasks[i].pc = "running"
    /\ tasks' = [tasks EXCEPT ![i].pc = "failed"]
    /\ UNCHANGED <<session_state, option, faiss_index, last_run>>
    /\ UNCHANGED notApp

Init == AppInit /\ SplitIdle /\ GroupIdle /\ ExtractIdle /\ MetaIdle /\ TopicsIdle /\ PipelineIdle /\ LoadIdle /\ RagIdle

Next ==
    \/ \E s \in Sessions, o \in Pages : SelectPage(s, o)
    \/ \E s \in Sessions, pages \in {demo_pages, upload_pages} : LoadTranscript(s, pages)
    \/ \E s \in Sessions : LoadFails(s)
    \/ \E s \in Sessions, services_ok \in BOOLEAN : Ask(s, 1, services_ok)
    \/ \E i \in 1..Len(tasks) : BuildWriteFaiss(i)
    \/ \E i \in 1..Len(tasks) : BuildWritePkl(i)
    \/ \E i \in 1..Len(tasks) : BuildFails(i)

Spec == Init /\ [][Next]_vars

(***************************************************************************)
(* Specifications of the pure functions:      the input is drawn in the     *)
(* initial state and the function body runs one loop pass per step.        *)
(***************************************************************************)
InitSplit == SplitInit /\ GroupIdle /\ ExtractIdle /\ MetaIdle /\ TopicsIdle /\ PipelineIdle /\ LoadIdle /\ RagIdle /\ AppIdle
NextSplit == SplitNext \/ SplitReturn
SpecSplit == InitSplit /\ [][NextSplit]_vars

InitGroup == GroupInit /\ SplitIdle /\ ExtractIdle /\ MetaIdle /\ TopicsIdle /\ PipelineIdle /\ LoadIdle /\ RagIdle /\ AppIdle
NextGroup == GroupNext \/ GroupReturn
SpecGroup == InitGroup /\ [][NextGroup]_vars

InitExtract == ExtractInit /\ SplitIdle /\ GroupIdle /\ MetaIdle /\ TopicsIdle /\ PipelineIdle /\ LoadIdle /\ RagIdle /\ AppIdle
NextExtract == ExtractCall
SpecExtract == InitExtract /\ [][NextExtract]_vars

InitMeta == MetaInit /\ SplitIdle /\ GroupIdle /\ ExtractIdle /\ TopicsIdle /\ PipelineIdle /\ LoadIdle /\ RagIdle /\ AppIdle
NextMeta == MetaCall
SpecMeta == InitMeta /\ [][NextMeta]_vars

InitRag == RagInit /\ SplitIdle /\ GroupIdle /\ ExtractIdle /\ MetaIdle /\ TopicsIdle /\ PipelineIdle /\ LoadIdle /\ AppIdle
NextRag == RagCall
SpecRag == InitRag /\ [][NextRag]_vars

InitTopics == TopicsInit /\ SplitIdle /\ GroupIdle /\ ExtractIdle /\ MetaIdle /\ PipelineIdle /\ LoadIdle /\ RagIdle /\ AppIdle
NextTopics == TopicsCall
SpecTopics == InitTopics /\ [][NextTopics]_vars

InitPipeline == PipelineInit /\ SplitIdle /\ GroupIdle /\ ExtractIdle /\ MetaIdle /\ TopicsIdle /\ LoadIdle /\ RagIdle /\ AppIdle
NextPipeline == PipeExtract \/ PipeSplit \/ PipeGroup \/ PipeRerun
SpecPipeline == InitPipeline /\ [][NextPipeline]_vars

InitLoad == LoadInit /\ SplitIdle /\ GroupIdle /\ ExtractIdle /\ MetaIdle /\ TopicsIdle /\ PipelineIdle /\ RagIdle /\ AppIdle
NextLoad ==
    \/ \E s \in LoadSessions : LoadDemo(s)
    \/ \E s \in LoadSessions, name \in UploadNames, uploaded_file \in UploadedFiles :
          LoadUpload(s, name, uploaded_file)
SpecLoad == InitLoad /\ [][NextLoad]_vars

(***************************************************************************)
(* Claims about split_docs_into_sections                                   *)
(***************************************************************************)
\* How often the input utterance numbered ord occurs in an output list.
CountIn(seq, ord) == Cardinality({j \in 1..Len(seq) : seq[j].order = ord})

IsModeratorLine(doc) == str_lower(str_strip(doc.speaker)) = moderator

HasPhrase(doc) == re_search_literal_I(qa_start_pattern, doc.page_content)

\* Every element of an output list is one of the input utterances, unchanged
\* but for its Section tag.
FromInput(seq) ==
    \A j \in 1..Len(seq) :
        /\ seq[j].order \in 1..Len(sp_arg)
        /\ [seq[j] EXCEPT !.Section = NoSection] = sp_arg[seq[j].order]

\* C1: an input utterance is retained, in exactly one of remarks and qa and
\* exactly once, if and only if its trimmed lower-cased speaker is not
\* "moderator"; a Moderator utterance (any casing) is in neither output.
C1_RetainedIffNotModerator ==
    /\ FromInput(remarks) /\ FromInput(action_qa)
    /\ \A k \in 1..Len(sp_arg) :
          CountIn(remarks, k) + CountIn(action_qa, k) =
              IF k < sp_i /\ ~IsModeratorLine(sp_arg[k]) THEN 1 ELSE 0

C1_Witness ==
    /\ sp_pc = "returned"
    /\ remarks # <<>> /\ action_qa # <<>>
    /\ \E k \in 1..Len(sp_arg) : sp_arg[k].speaker = spk_MODERATOR_padded

PhraseIdx == {k \in 1..Len(sp_arg) : HasPhrase(sp_arg[k])}

\* C2 as stated: the first utterance containing the transition phrase is in
\* the Q&A output with tag "Q&A" and not in Remarks.
C2_PhraseUtteranceInQA ==
    (sp_pc = "returned" /\ PhraseIdx # {}) =>
        LET f == SetMin(PhraseIdx)
        IN  /\ CountIn(remarks, f) = 0
            /\ \E j \in 1..Len(action_qa) :
                  action_qa[j].order = f /\ action_qa[j].Section = "Q&A"

\* C2 amended: the first utterance containing the transition phrase is never
\* in Remarks; it is in the Q&A output with tag "Q&A" unless its speaker is
\* Moderator, in which case it is in neither output.
C2_PhraseUtteranceNotInRemarks ==
    (sp_pc = "returned" /\ PhraseIdx # {}) =>
        LET f == SetMin(PhraseIdx)
        IN  /\ CountIn(remarks, f) = 0
            /\ IF IsModeratorLine(sp_arg[f])
               THEN CountIn(action_qa, f) = 0
               ELSE \E j \in 1..Len(action_qa) :
                       action_qa[j].order = f /\ action_qa[j].Section = "Q&A"

C2_Witness ==
    /\ sp_pc = "returned"
    /\ PhraseIdx # {}
    /\ remarks # <<>>
    /\ ~IsModeratorLine(sp_arg[SetMin(PhraseIdx)])
    /\ action_qa # <<>> /\ action_qa[1].order = SetMin(PhraseIdx)

\* The input utterances that are not Moderator lines, in input order, each
\* tagged tag.
RECURSIVE NonModeratorTagged(_, _)
NonModeratorTagged(docs, tag) ==
    IF docs = <<>> THEN <<>>
    ELSE IF IsModeratorLine(docs[1]) THEN NonModeratorTagged(Tail(docs), tag)
    ELSE <<[docs[1] EXCEPT !.Section = tag]>> \o NonModeratorTagged(Tail(docs), tag)

\* C15: when no utterance contains "The first question" (any letter case),
\* Remarks is every non-Moderator utterance tagged "Remark", in input order,
\* and the Q&A output is empty; an empty input gives two empty outputs.
C15_NoPhraseAllRemarks ==
    (sp_pc = "returned" /\ PhraseIdx = {}) =>
        /\ remarks = NonModeratorTagged(sp_arg, "Remark")
        /\ action_qa = <<>>
        /\ sp_arg = <<>> => remarks = <<>>

C15_Witness ==
    /\ sp_pc = "returned"
    /\ PhraseIdx = {}
    /\ Len(sp_arg) >= 3
    /\ Len(remarks) = 2
    /\ \E k \in 1..Len(sp_arg) : sp_arg[k].page_content = txt_first_only
    /\ \E k \in 1..Len(sp_arg) : IsModeratorLine(sp_arg[k])

\* The order values of a list increase strictly.
OrderIncreasing(seq) == \A i, j \in 1..Len(seq) : i < j => seq[i].order < seq[j].order

\* C19: the section flag never returns from Q&A to Remarks: both outputs keep
\* the input order, every Remarks utterance precedes every Q&A utterance, and
\* once an utterance (a dropped Moderator line included) has contained the
\* phrase, every later non-Moderator utterance is in Q&A, with or without
\* the phrase.
C19_SectionFlagMonotone ==
    /\ [][section = "Action Q&A" => section' = "Action Q&A"]_vars
    /\ [](/\ OrderIncreasing(remarks) /\ OrderIncreasing(action_qa)
          /\ \A i \in 1..Len(remarks), j \in 1..Len(action_qa) :
                remarks[i].order < action_qa[j].order
          /\ (sp_pc = "returned" /\ PhraseIdx # {}) =>
                \A k \in 1..Len(sp_arg) :
                    (k > SetMin(PhraseIdx) /\ ~IsModeratorLine(sp_arg[k])) =>
                        /\ CountIn(action_qa, k) = 1
                        /\ CountIn(remarks, k) = 0)

C19_Witness ==
    /\ sp_pc = "returned"
    /\ PhraseIdx # {}
    /\ IsModeratorLine(sp_arg[SetMin(PhraseIdx)])
    /\ remarks # <<>>
    /\ \E j \in 1..Len(action_qa) : ~HasPhrase(action_qa[j])

(***************************************************************************)
(* Claims about group_by_pattern                                           *)
(***************************************************************************)
TypesOf(docs) == [k \in 1..Len(docs) |-> IF docs[k].type = "Questioner" THEN "Q" ELSE "A"]

\* Positions where a Questioner utterance directly follows an Answerer one.
AnswerThenQuestion(docs) ==
    {k \in 2..Len(docs) : TypesOf(docs)[k - 1] = "A" /\ TypesOf(docs)[k] = "Q"}

\* C3: during the scan a batch is closed (and a new one opened with the
\* arriving utterance) exactly when a Questioner arrives while the current
\* batch holds an answer; otherwise the utterance joins the current question
\* or answer group.  Q,Q,A,A,Q,A,A gives ([1,2],[3,4]) and ([5],[6,7]).
C3_BatchClosesOnQuestionAfterAnswer ==
    /\ [](gb_pc = "returned" =>
            /\ Len(batches) = IF qa_docs = <<>> THEN 0
                              ELSE 1 + Cardinality(AnswerThenQuestion(qa_docs))
            /\ TypesOf(qa_docs) = <<"Q", "Q", "A", "A", "Q", "A", "A">> =>
                  batches = << <<SubSeq(qa_docs, 1, 2), SubSeq(qa_docs, 3, 4)>>,
                               <<SubSeq(qa_docs, 5, 5), SubSeq(qa_docs, 6, 7)>> >>)
    /\ [][(gb_pc = "loop" /\ gb_pc' = "loop") =>
            LET doc == qa_docs[gb_i]
                closes == doc.type = "Questioner" /\ current_as # <<>>
            IN  IF closes
                THEN /\ batches' = Append(batches, <<current_qs, current_as>>)
                     /\ current_qs' = <<doc>> /\ current_as' = <<>>
                ELSE /\ batches' = batches
                     /\ IF doc.type = "Questioner"
                        THEN current_qs' = Append(current_qs, doc) /\ current_as' = current_as
                        ELSE current_as' = Append(current_as, doc) /\ current_qs' = current_qs
         ]_vars

C3_Witness ==
    /\ gb_pc = "returned"
    /\ TypesOf(qa_docs) = <<"Q", "Q", "A", "A", "Q", "A", "A">>
    /\ Len(batches) = 2

\* First position of the run of Questioner utterances that ends the input.
TrailingQuestionsStart(docs) ==
    SetMin({s \in 1..Len(docs) : \A k \in s..Len(docs) : TypesOf(docs)[k] = "Q"})

\* C4: after the scan one final batch is emitted exactly when an accumulator
\* is non-empty: Q,Q,Q gives the single batch ([1,2,3],[]), trailing
\* unanswered questions form a last batch with no answers, and the empty
\* input gives no batch.
C4_FinalBatchIffPending ==
    /\ [](gb_pc = "returned" =>
            /\ (qa_docs = <<>>) <=> (batches = <<>>)
            /\ TypesOf(qa_docs) = <<"Q", "Q", "Q">> => batches = << <<qa_docs, <<>> >> >>
            /\ (qa_docs # <<>> /\ TypesOf(qa_docs)[Len(qa_docs)] = "Q") =>
                  batches[Len(batches)] =
                     <<SubSeq(qa_docs, TrailingQuestionsStart(qa_docs), Len(qa_docs)), <<>> >>)
    /\ [][(gb_pc = "loop" /\ gb_pc' = "returned") =>
            batches' = IF current_qs # <<>> \/ current_as # <<>>
                       THEN Append(batches, <<current_qs, current_as>>)
                       ELSE batches
         ]_vars

C4_Witness ==
    /\ gb_pc = "returned"
    /\ TypesOf(qa_docs) = <<"Q", "Q", "Q">>
    /\ batches = << <<qa_docs, <<>> >> >>

\* The batches laid end to end: each batch's questions, then its answers.
RECURSIVE FlattenBatches(_)
FlattenBatches(bs) ==
    IF bs = <<>> THEN <<>> ELSE bs[1][1] \o bs[1][2] \o FlattenBatches(Tail(bs))

\* C20: the batches of group_by_pattern, laid end to end, are the input
\* sequence; question lists hold Questioner utterances only and answer lists
\* Answerer utterances only; no batch is empty; every batch but the last has
\* an answer and every batch but the first has a question.
C20_BatchesPartitionInput ==
    gb_pc = "returned" =>
        /\ FlattenBatches(batches) = qa_docs
        /\ \A b \in 1..Len(batches) :
              /\ \A j \in 1..Len(batches[b][1]) : batches[b][1][j].type = "Questioner"
              /\ \A j \in 1..Len(batches[b][2]) : batches[b][2][j].type = "Answerer"
              /\ batches[b][1] # <<>> \/ batches[b][2] # <<>>
              /\ b < Len(batches) => batches[b][2] # <<>>
              /\ b > 1 => batches[b][1] # <<>>

C20_Witness ==
    /\ gb_pc = "returned"
    /\ Len(batches) >= 3
    /\ batches[1][1] = <<>>
    /\ batches[Len(batches)][2] = <<>>
    /\ Len(batches[2][1]) >= 2

(***************************************************************************)
(* Claims about Pattern_extract                                            *)
(***************************************************************************)
\* C5: the order values of the returned utterances are unique, start at 1
\* and increase strictly with the output position: the i-th has order i.
C5_OrderIsOutputRank ==
    ex_pc = "returned" =>
        /\ \A i \in 1..Len(ex_out) : ex_out[i].order = i
        /\ \A i, j \in 1..Len(ex_out) : i < j => ex_out[i].order < ex_out[j].order
        /\ ex_out # <<>> => ex_out[1].order = 1

C5_Witness ==
    /\ ex_pc = "returned"
    /\ Len(ex_out) >= 3
    /\ ex_out[1].speaker # ex_out[2].speaker

\* C13: an utterance of Pattern_extract is Answerer/Management exactly when
\* its trimmed speaker is, letter for letter, one of the management names;
\* every other utterance (a name differing in case included) is
\* Questioner/Investor.
C13_ManagementIffExactMember ==
    ex_pc = "returned" =>
        \A i \in 1..Len(ex_out) :
            LET member == \E k \in 1..Len(ex_management) : ex_management[k] = ex_out[i].speaker
            IN  /\ ex_out[i].speaker = str_strip(ex_out[i].speaker)
                /\ member => ex_out[i].type = "Answerer" /\ ex_out[i].role = "Management"
                /\ ~member => ex_out[i].type = "Questioner" /\ ex_out[i].role = "Investor"

C13_Witness ==
    /\ ex_pc = "returned"
    /\ ex_management = <<mgmt_AL, spk_Bo>>
    /\ \E i, j \in 1..Len(ex_out) :
          /\ ex_out[i].speaker = spk_Al /\ ex_out[i].type = "Questioner"
          /\ ex_out[j].speaker = spk_Bo /\ ex_out[j].type = "Answerer"

\* The joined text of the pages, the positions where a greeting phrase
\* starts in it, and the utterances the speaker pattern yields on a text.
FullText == str_join_newline([k \in 1..Len(ex_docs) |-> str_strip(ex_docs[k])])
GreetingStartsIn(text) == {p \in 1..Len(text) : StartPatternAt(text, p)}
UtterancesOf(text) ==
    LET matches == dialogue_findall(text, 1)
    IN  [i \in 1..Len(matches) |-> BuildDocument(matches[i], i, ex_management)]

\* C14: without a greeting phrase Pattern_extract parses the whole text, so
\* it returns utterances whenever the speaker pattern matches somewhere in
\* it; with a greeting it parses the text from the first greeting onward.
C14_FallbackParsesWholeText ==
    ex_pc = "returned" =>
        \A text \in {FullText} : \A starts \in {GreetingStartsIn(text)} :
            IF starts = {}
            THEN /\ ex_out = UtterancesOf(text)
                 /\ (\E p \in 1..Len(text) : DialogueAt(text, p)) => ex_out # <<>>
            ELSE ex_out = UtterancesOf(str_from(text, SetMin(starts)))

C14_Witness ==
    /\ ex_pc = "returned"
    /\ GreetingStartsIn(FullText) = {}
    /\ Len(ex_docs) >= 2
    /\ Len(ex_out) >= 2

(***************************************************************************)
(* Claims about meta_data                                                  *)
(***************************************************************************)
\* C10: when the LLM's reply fails JSON decoding or schema validation,
\* meta_data raises nothing and returns exactly the default record.
C10_DefaultRecordOnInvalidReply ==
    (md_pc = "done" /\ Len(md_docs) >= 2 /\ md_llm_ok /\ ~ValidatesAsConferenceCall(md_reply)) =>
        /\ md_out.raised = "none"
        /\ md_out.value = default_dict(md_today)

(***************************************************************************)
(* Claims about rag_pipeline                                               *)
(***************************************************************************)
\* C6: the (utterance, score) pairs rag_pipeline returns are in descending
\* score order whatever order the index returned them in, are at most K = 10,
\* and are no more than the indexed utterances.
C6_SortedDescendingAtMostK ==
    (rg_pc = "done" /\ rg_out.raised = "none") =>
        LET pairs == rg_out.value.docs_with_scores
        IN  /\ \A i, j \in 1..Len(pairs) : i < j => pairs[i][2] >= pairs[j][2]
            /\ Len(pairs) <= K
            /\ Len(pairs) <= Len(rg_index.faiss.docs)

C6_Witness ==
    /\ rg_pc = "done" /\ rg_out.raised = "none"
    /\ rg_lib_order = "nearest_first"
    /\ Len(rg_index.faiss.docs) > K
    /\ Len(rg_out.value.docs_with_scores) = K
    /\ rg_out.value.docs_with_scores[1][2] > rg_out.value.docs_with_scores[K][2]

(***************************************************************************)
(* Claims about the application: queries, index builds                     *)
(***************************************************************************)
\* C7: a query that reaches rag_pipeline while no index exists is answered
\* with a distinct "index not ready" condition, not with an uncaught error.
C7_IndexNotReadyReported ==
    (last_run.query /\ last_run.index_absent) =>
        /\ last_run.out.raised = "none"
        /\ last_run.out.value = "index not ready"

\* The create_store tasks submitted for the transcript loaded in session s.
BuildsOf(s) == {i \in 1..Len(tasks) : tasks[i].owner = s}

\* C8: create_store is submitted at most once per loaded transcript, so no
\* two builds of the same transcript are in progress at the same time.
C8_OneBuildPerTranscript ==
    \A s \in Sessions :
        /\ Cardinality(BuildsOf(s)) <= 1
        /\ Cardinality({i \in BuildsOf(s) : tasks[i].pc \in {"running", "writing"}}) <= 1

\* C9: after a failed build, and until a build triggered later completes, the
\* index is absent and every query reports "index not ready".
C9_FailedBuildLeavesNoIndex ==
    /\ FailedBuildPending =>
          ~faiss_index.faiss.exists /\ ~faiss_index.pkl.exists
    /\ (last_run.query /\ last_run.after_failed_build) =>
          /\ last_run.out.raised = "none"
          /\ last_run.out.value = "index not ready"

\* C11: whenever the LLM's reply fails JSON decoding or validation against
\* TopicsOutput, extract_topics returns {"topics": []} and raises nothing.
C11_EmptyTopicsOnInvalidReply ==
    (tp_pc = "done" /\ tp_llm_ok /\ ~ValidatesAsTopicsOutput(tp_reply)) =>
        /\ tp_out.raised = "none"
        /\ tp_out.value = default_dict_topics

C16_UnreadableSourceFailsFast ==
    (fl_last.session \in LoadSessions /\ fl_last.given.kind # "pdf") =>
        /\ fl_last.out.raised # "none"
        /\ fl_session[fl_last.session] = NewLoadSession

\* A page with both 50-point bands blank: no text and no image in them.
BandsBlanked(page) ==
    [page EXCEPT !.header = "", !.footer = "",
                 !.header_image = FALSE, !.footer_image = FALSE]

\* C17: file_load leaves every page of the file it was given with the top and
\* bottom bands blank, text and images alike, and returns, page by page, the
\* text of that redacted file: nothing that lay in a band.
C17_BandsBlankedOnEveryPage ==
    (fl_last.session \in LoadSessions /\ fl_last.given.kind = "pdf"
        /\ fl_last.out.raised = "none") =>
        /\ fl_last.left =
              Pdf([k \in 1..Len(fl_last.given.pages) |-> BandsBlanked(fl_last.given.pages[k])])
        /\ fl_last.out.value =
              [k \in 1..Len(fl_last.given.pages) |->
                  page_text(BandsBlanked(fl_last.given.pages[k]))]

\* The utterances of all batches, questions and answers alike.
BatchDocs(bs) ==
    UNION { {bs[b][1][j] : j \in 1..Len(bs[b][1])} \cup {bs[b][2][j] : j \in 1..Len(bs[b][2])}
            : b \in 1..Len(bs) }

\* C18: the split step changes nothing on the utterances it is given except
\* the Section tag of those it retains, leaves Moderator utterances as they
\* were, and returns those same records; the grouping step changes no
\* utterance and every utterance of its batches is one of those it was given.
C18_AnnotateAndGroupOnly ==
    /\ [][(pl_pc = "extracted" /\ pl_pc' = "split") =>
            /\ Len(pl_pattern') = Len(pl_pattern)
            /\ \A k \in 1..Len(pl_pattern) :
                  IF IsModeratorLine(pl_pattern[k])
                  THEN pl_pattern'[k] = pl_pattern[k]
                  ELSE /\ [pl_pattern'[k] EXCEPT !.Section = pl_pattern[k].Section] = pl_pattern[k]
                       /\ pl_pattern'[k].Section \in {"Remark", "Q&A"}
            /\ \A j \in 1..Len(pl_remarks') : pl_remarks'[j] = pl_pattern'[pl_remarks'[j].order]
            /\ \A j \in 1..Len(pl_QA') : pl_QA'[j] = pl_pattern'[pl_QA'[j].order]]_vars
    /\ [][(pl_pc = "split" /\ pl_pc' = "grouped") =>
            /\ pl_pattern' = pl_pattern /\ pl_remarks' = pl_remarks /\ pl_QA' = pl_QA
            /\ BatchDocs(pl_qa_batches') = {pl_QA[j] : j \in 1..Len(pl_QA)}]_vars

C18_Witness ==
    /\ pl_run = 1 /\ pl_pc = "grouped"
    /\ \E k \in 1..Len(pl_pattern) :
          IsModeratorLine(pl_pattern[k]) /\ pl_pattern[k].Section = NoSection
    /\ pl_remarks # <<>> /\ pl_QA # <<>>
    /\ pl_qa_batches # <<>>

\* The latest run was a query that rag_pipeline answered.
Answered ==
    /\ last_run.query
    /\ last_run.out.raised = "none"

\* The Remarks and Q&A utterances of the transcript loaded in session s: what
\* lines 178-182 of app.py hand to create_store for the session's pages.
UtterancesOfSession(s) ==
    UNION { {sp.remarks[k] : k \in 1..Len(sp.remarks)}
            \cup {sp.action_qa[k] : k \in 1..Len(sp.action_qa)}
            : sp \in {Sectioned[session_state[s].docs, p] : p \in AppParticipants} }

\* C21: every utterance rag_pipeline returns for a query is one of the
\* Remarks and Q&A utterances of the transcript loaded in the session that
\* asked; no query is answered from an index built for another transcript.
C21_AnsweredFromOwnTranscript ==
    Answered =>
        \A h \in 1..Len(last_run.out.value.docs_with_scores) :
            last_run.out.value.docs_with_scores[h][1] \in UtterancesOfSession(last_run.session)

====
